---------------------------- MODULE Spec2Model ----------------------------
(***************************************************************************)
(* Biometric re-authentication gate of the React Native application:       *)
(* App.tsx (launch routing), the Home screen's foreground check, the Login *)
(* screen's sign-in and the BiometricScreen component of                   *)
(* src/screens/LoginScreen.tsx (lines 656-1355) with its persisted ledger  *)
(* (AsyncStorage keys failedBiometricAttempts, biometricLockout,           *)
(* lastBiometricAuth), its timers and its app-lifecycle handlers.          *)
(*                                                                         *)
(* React semantics kept by the model:                                      *)
(*  - a closure created by a render reads the state values of THAT render  *)
(*    (field env of every pending call, timer and alert).  Everything      *)
(*    started from useEffect(..., []) runs with the first render's values  *)
(*    (Env0): the mount auto-trigger, the AppState listener, the session   *)
(*    timer.  A button of the screen runs with the current render (CurEnv).*)
(*  - an async handler runs atomically up to its next await.  AsyncStorage *)
(*    serves its calls one after the other in the order they were issued:  *)
(*    a call takes effect when it is issued, and the handlers that await   *)
(*    storage resume in that order (queue).                                *)
(*  - setState on an unmounted component instance does nothing.            *)
(***************************************************************************)
EXTENDS Integers, Sequences, FiniteSets, TLC

\* ---------------------------------------------------------------- constants
MAX_FAILED_ATTEMPTS == 3
LOCKOUT_DURATION == 60000
SESSION_TIMEOUT == 60000
BIOMETRIC_TIMEOUT == 60000
HOME_REAUTH_AFTER == 30000
LAUNCH_REAUTH_AFTER == 300000

\* ------------------------------------------------------------------- bounds
\* the clock advances in steps of TickMs, at most MaxTicks times
MaxTicks == 2
\* TouchID.authenticate calls issued by the Biometric screen in one run
MaxAuth == 2
\* BiometricScreen instances mounted in one run
MaxMounts == 2
\* AppState change events in one run
MaxLifecycle == 2
\* AsyncStorage calls reject only in attempts numbered up to MaxErrAttempt
MaxErrAttempt == 1

TickMs == LOCKOUT_DURATION \div 2
MaxNow == MaxTicks * TickMs

\* ------------------------------------------------------------------- values
\* AsyncStorage.getItem gives null for a missing key: None; a stored value: Some(v)
None == << >>
Some(v) == << v >>
Val(o) == o[1]

VARIABLES
  now,        \* Date.now()
  appState,   \* AppState.currentState
  route,      \* the screen on top of the stack navigator ("Launch": isLoading)
  mounted,    \* the BiometricScreen instance number inst is mounted
  inst,       \* number of BiometricScreen instances mounted so far
  store,      \* AsyncStorage
  ui,         \* the useState values of the mounted BiometricScreen
  timers,     \* pending setTimeout callbacks of the three timer refs
  deferred,   \* pending setTimeout(() => handleBiometricAuth(), 500 | 1000)
  calls,      \* async handlers awaiting TouchID or an animation
  queue,      \* async handlers awaiting AsyncStorage, in the order of their calls
  alerts,     \* Alert.alert dialogs on screen
  authCount,  \* TouchID.authenticate calls issued so far by the Biometric screen
  lifeCount,  \* AppState change events so far
  homeVia,    \* history: what the last navigation to Home was made by
  streak      \* history: counted failures since the ledger was last cleared

vars == <<now, appState, route, mounted, inst, store, ui, timers, deferred,
          calls, queue, alerts, authCount, lifeCount, homeVia, streak>>

\* useState initial values, LoginScreen.tsx 703-711
InitUi ==
  [authAttempts |-> 0, isAuthenticating |-> FALSE, isLockedOut |-> FALSE,
   lockoutEndTime |-> 0, sessionExpired |-> FALSE,
   showFallbackOptions |-> FALSE, biometricAvailable |-> TRUE]

\* the state values a closure of the first render reads
Env0 ==
  [authAttempts |-> 0, isAuthenticating |-> FALSE, isLockedOut |-> FALSE]

\* the state values a closure of the current render reads
CurEnv ==
  [authAttempts |-> ui.authAttempts, isAuthenticating |-> ui.isAuthenticating,
   isLockedOut |-> ui.isLockedOut]

\* AsyncStorage of a registered, signed-in user
InitStore(enabled, failed, lockout, last) ==
  [isLoggedIn |-> TRUE, biometricEnabled |-> enabled,
   failedBiometricAttempts |-> failed, biometricLockout |-> lockout,
   lastBiometricAuth |-> last, securityToken |-> FALSE,
   lastSecurityEvent |-> None, emergencyAccess |-> FALSE]

\* the record handleFailedAttempt persists at time t, LoginScreen.tsx 955-959
LockoutRecord(t, attempts) ==
  [endTime |-> t + LOCKOUT_DURATION, attempts |-> attempts, timestamp |-> t]

\* a lastBiometricAuth written longer before the launch than checkAuthStatus
\* accepts (the clock of the model starts at 0)
LongAgo == 0 - (LAUNCH_REAUTH_AFTER + TickMs)

\* The process starts with what earlier runs of the app left in AsyncStorage:
\* a fresh registration (biometric set up or not), an authentication long
\* ago, MAX_FAILED_ATTEMPTS - 1 failures recorded, or a lockout recorded at
\* time 0 and the app opened again during it or when it has ended.  The
\* process is started by the user, or, half-way through a lockout, by the
\* system while the app is in the background (AppState.currentState is then
\* 'background').
InitCases ==
  { [store |-> InitStore("true", None, None, None), now |-> 0, streak |-> 0,
     appState |-> "active"],
    [store |-> InitStore("false", None, None, None), now |-> 0, streak |-> 0,
     appState |-> "active"],
    [store |-> InitStore("true", None, None, Some(LongAgo)),
     now |-> 0, streak |-> 0, appState |-> "active"],
    [store |-> InitStore("true", None, None, Some(0 - LAUNCH_REAUTH_AFTER)),
     now |-> 0, streak |-> 0, appState |-> "active"],
    [store |-> InitStore("true", None, None, Some(0)), now |-> 0, streak |-> 0,
     appState |-> "active"],
    [store |-> [InitStore("true", None, None, None) EXCEPT !.isLoggedIn = FALSE],
     now |-> 0, streak |-> 0, appState |-> "active"],
    [store |-> InitStore("true", Some(MAX_FAILED_ATTEMPTS - 1), None, None),
     now |-> 0, streak |-> MAX_FAILED_ATTEMPTS - 1,
     appState |-> "active"],
    [store |-> InitStore("true", Some(MAX_FAILED_ATTEMPTS),
                         Some(LockoutRecord(0, MAX_FAILED_ATTEMPTS)), None),
     now |-> 0, streak |-> MAX_FAILED_ATTEMPTS, appState |-> "active"],
    [store |-> InitStore("true", Some(MAX_FAILED_ATTEMPTS),
                         Some(LockoutRecord(0, MAX_FAILED_ATTEMPTS)), None),
     now |-> TickMs, streak |-> MAX_FAILED_ATTEMPTS,
     appState |-> "background"],
    [store |-> InitStore("true", Some(MAX_FAILED_ATTEMPTS),
                         Some(LockoutRecord(0, MAX_FAILED_ATTEMPTS)), None),
     now |-> LOCKOUT_DURATION, streak |-> MAX_FAILED_ATTEMPTS,
     appState |-> "active"] }

Init ==
  /\ \E ic \in InitCases :
       /\ store = ic.store
       /\ now = ic.now
       /\ streak = ic.streak
       /\ appState = ic.appState
  /\ route = "Launch"
  /\ mounted = FALSE
  /\ inst = 0
  /\ ui = InitUi
  /\ timers = {}
  /\ deferred = {}
  /\ calls = {}
  /\ queue = << >>
  /\ alerts = {}
  /\ authCount = 0
  /\ lifeCount = 0
  /\ homeVia = "none"

\* ------------------------------------------------------------------ helpers
Live(i) == mounted /\ i = inst

\* setState of instance i: a no-op once that instance is unmounted
UiSet(i, new) == IF Live(i) THEN new ELSE ui

\* clearTimeout(ref.current) for the refs in refs of instance i
ClearHeld(ts, i, refs) ==
  {t \in ts : ~(t.inst = i /\ t.held /\ t.ref \in refs)}

\* ref.current = setTimeout(...): the handle held before is overwritten, its
\* callback stays pending
Arm(ts, t) ==
  {IF u.inst = t.inst /\ u.ref = t.ref /\ u.held
     THEN [u EXCEPT !.held = FALSE] ELSE u : u \in ts} \cup {t}

Timer(ref, kind, due, env, i) ==
  [ref |-> ref, kind |-> kind, due |-> due, env |-> env, inst |-> i,
   held |-> TRUE]

\* an async handler waiting at the await named pc; x: a biometricLockout value
\* it read, y: a number it read or computed, s: a string it read.  History:
\* k, for a counted failure, its number in the run of consecutive counted
\* failures; for a success y is the time TouchID reported it; for
\* handleAppBackground y is the lastBiometricAuth it removes
\* and s the phase it was called in
Call(kind, pc, id, env, i, x, y, s) ==
  [kind |-> kind, pc |-> pc, id |-> id, env |-> env, inst |-> i,
   x |-> x, y |-> y, s |-> s, k |-> 0]

\* n: the remaining-attempts number the dialog shows (0 when it shows none)
Alert(kind, env, i, n) == [kind |-> kind, env |-> env, inst |-> i, n |-> n]

\* the handler whose AsyncStorage call settles next
StorageHead == IF queue = << >> THEN {} ELSE {Head(queue)}

\* no handler is between two of its storage calls.  A storage call, like
\* TouchID.isSupported, settles within milliseconds: the user does not press
\* anything and the clock does not reach the next tick in that time; TouchID
\* results, timer callbacks and AppState events do arrive in it.
Quiet == queue = << >> /\ \A c \in calls : c.kind = "auth"

\* the phase the Biometric screen shows (useState values, LoginScreen.tsx
\* 703-711), "success" while the success path of an attempt is running
Phase ==
  IF \E c \in calls : c.kind = "auth" /\ c.pc = "s4" THEN "success"
  ELSE IF \E j \in 1..Len(queue) :
            queue[j].kind = "auth" /\ queue[j].pc \in {"s1", "s2", "s3"}
  THEN "success"
  ELSE IF ui.isLockedOut THEN "lockedOut"
  ELSE IF ui.isAuthenticating THEN "authenticating"
  ELSE IF ui.sessionExpired THEN "sessionExpired"
  ELSE IF ui.showFallbackOptions THEN "fallback"
  ELSE "idle"

\* clearTimers, LoginScreen.tsx 758-762
clearTimers(ts, i) == ClearHeld(ts, i, {"lockout", "session", "bio"})

\* navigation.replace(target) called by a closure of BiometricScreen instance
\* i.  The stack replaces the caller's own route: once that screen has been
\* replaced the call finds no route and does nothing.  Replacing the screen
\* unmounts it: the useEffect cleanup (752-755) runs clearTimers.
Navigate(i, target, via) ==
  IF Live(i)
  THEN /\ route' = target
       /\ mounted' = FALSE
       /\ timers' = clearTimers(timers, i)
       /\ ui' = InitUi
       /\ homeVia' = IF target = "Home" THEN via ELSE homeVia
  ELSE UNCHANGED <<route, mounted, timers, ui, homeVia>>

\* ------------------------------------------------------------ App.tsx launch
\* checkAuthStatus, were it to ask for the biometric only when no
\* lastBiometricAuth is stored
launchStaleWhenAbsent == store.lastBiometricAuth = None

\* checkAuthStatus, App.tsx 91-95: timeDiff > 300000 || !lastAuthTime
launchStale ==
  \/ store.lastBiometricAuth = None
  \/ now - Val(store.lastBiometricAuth) > LAUNCH_REAUTH_AFTER

\* checkAuthStatus, App.tsx 70-114: the route it chooses when its reads fail
\* or not and TouchID.isSupported() resolves or not
initialRoute(readFails, supported) ==
  IF readFails THEN "Login"
  ELSE IF ~store.isLoggedIn THEN "Login"
  ELSE IF store.biometricEnabled # "true" THEN "Home"
  ELSE IF ~supported THEN "Home"
  ELSE IF launchStale THEN "Biometric" ELSE "Home"

\* checkAuthStatus, App.tsx 70-118 (its three reads are taken together)
checkAuthStatusWith(readFails, supported) ==
  /\ route = "Launch"
  /\ route' = initialRoute(readFails, supported)
  /\ store' = IF ~readFails /\ store.isLoggedIn
                 /\ store.biometricEnabled = "true" /\ ~supported
              THEN [store EXCEPT !.biometricEnabled = "false"]
              ELSE store
  /\ homeVia' = IF initialRoute(readFails, supported) = "Home"
                THEN "launch" ELSE homeVia
  /\ UNCHANGED <<now, appState, mounted, inst, ui, timers, deferred, calls,
                 queue, alerts, authCount, lifeCount, streak>>

checkAuthStatus ==
  \E readFails \in BOOLEAN, supported \in BOOLEAN :
    checkAuthStatusWith(readFails, supported)

\* ------------------------------------------------- BiometricScreen: mounting
\* useEffect(..., []), LoginScreen.tsx 723-727: initializeBiometric runs up to
\* its await of TouchID.isSupported, checkLockoutStatus up to its first
\* getItem, startSessionTimer arms the session timer
BiometricMount ==
  /\ route = "Biometric"
  /\ ~mounted
  /\ inst < MaxMounts
  /\ inst' = inst + 1
  /\ mounted' = TRUE
  /\ ui' = InitUi
  /\ calls' = calls \cup
       { Call("init", "i0", 0, Env0, inst + 1, None, None, "") }
  /\ queue' = Append(queue, Call("check", "c1", 0, Env0, inst + 1,
                                 store.biometricLockout, None, ""))
  /\ timers' = Arm(timers, Timer("session", "session",
                                 now + SESSION_TIMEOUT, Env0, inst + 1))
  /\ UNCHANGED <<now, appState, route, store, deferred, alerts, authCount,
                 lifeCount, homeVia, streak>>

\* initializeBiometric, LoginScreen.tsx 850-880: TouchID.isSupported settles
initializeBiometric(c) ==
  /\ c \in calls /\ c.kind = "init" /\ c.pc = "i0"
  /\ calls' = calls \ {c}
  /\ \E supported \in BOOLEAN :
       IF supported
       THEN /\ ui' = UiSet(c.inst, [ui EXCEPT !.biometricAvailable = TRUE])
            /\ queue' = Append(queue, [c EXCEPT !.pc = "i1",
                                                !.s = store.biometricEnabled])
       ELSE /\ ui' = UiSet(c.inst, [ui EXCEPT !.biometricAvailable = FALSE,
                                              !.showFallbackOptions = TRUE])
            /\ queue' = queue
  /\ UNCHANGED <<now, appState, route, mounted, inst, store, timers, deferred,
                 alerts, authCount, lifeCount, homeVia, streak>>

\* initializeBiometric after its getItem('biometricEnabled'): the auto-trigger
\* and the prompt timeout, both closures of the render that called it
initializeBiometricEnabled(c) ==
  /\ c \in StorageHead /\ c.kind = "init" /\ c.pc = "i1"
  /\ queue' = Tail(queue)
  /\ IF c.s # "true"
     THEN /\ ui' = UiSet(c.inst, [ui EXCEPT !.biometricAvailable = FALSE,
                                            !.showFallbackOptions = TRUE])
          /\ UNCHANGED <<deferred, timers>>
     ELSE /\ ui' = ui
          /\ IF ~c.env.isLockedOut
             THEN /\ deferred' = deferred \cup {[env |-> c.env, inst |-> c.inst]}
                  /\ timers' = Arm(timers, Timer("bio", "bioInit",
                                    now + BIOMETRIC_TIMEOUT, c.env, c.inst))
             ELSE UNCHANGED <<deferred, timers>>
  /\ UNCHANGED <<now, appState, route, mounted, inst, store, calls, alerts,
                 authCount, lifeCount, homeVia, streak>>

\* ------------------------------------------------------- checkLockoutStatus
\* handleAppForeground, were it to end after its re-check of the lockout
AfterCheckNoTrigger(c) == deferred

\* handleAppForeground after its await of checkLockoutStatus,
\* LoginScreen.tsx 783-785 (id 1 marks a check called by handleAppForeground)
AfterCheck(c) ==
  IF c.id = 1 /\ ~c.env.isLockedOut
  THEN deferred \cup {[env |-> c.env, inst |-> c.inst]}
  ELSE deferred

\* startLockoutTimer, were it to arm the timer for half the duration
startLockoutTimerHalf(ts, duration, env, i) ==
  Arm(ts, Timer("lockout", "lockout", now + (duration \div 2), env, i))

\* startLockoutTimer, LoginScreen.tsx 829-837
startLockoutTimer(ts, duration, env, i) ==
  Arm(ts, Timer("lockout", "lockout", now + duration, env, i))

\* checkLockoutStatus, LoginScreen.tsx 799-802: the second getItem
checkLockoutStatusRead(c) ==
  /\ c \in StorageHead /\ c.kind = "check" /\ c.pc = "c1"
  /\ queue' = Append(Tail(queue),
                     [c EXCEPT !.pc = "c2", !.y = store.failedBiometricAttempts])
  /\ UNCHANGED <<now, appState, route, mounted, inst, store, ui, timers,
                 deferred, calls, alerts, authCount, lifeCount, homeVia,
                 streak>>

\* checkLockoutStatus, LoginScreen.tsx 804-823, with both values read
checkLockoutStatus(c) ==
  /\ c \in StorageHead /\ c.kind = "check" /\ c.pc = "c2"
  /\ IF c.x # None /\ now < Val(c.x).endTime
     THEN /\ ui' = UiSet(c.inst, [ui EXCEPT !.isLockedOut = TRUE,
                                  !.lockoutEndTime = Val(c.x).endTime,
                                  !.authAttempts = Val(c.x).attempts])
          /\ timers' = startLockoutTimer(timers, Val(c.x).endTime - now,
                                         c.env, c.inst)
          /\ queue' = Tail(queue)
          /\ deferred' = AfterCheck(c)
          /\ UNCHANGED <<store, streak>>
     ELSE IF c.x # None
     THEN /\ store' = [store EXCEPT !.biometricLockout = None]
          /\ streak' = 0
          /\ queue' = Append(Tail(queue), [c EXCEPT !.pc = "c3"])
          /\ UNCHANGED <<ui, timers, deferred>>
     ELSE /\ ui' = IF c.y # None
                   THEN UiSet(c.inst, [ui EXCEPT !.authAttempts = Val(c.y)])
                   ELSE ui
          /\ queue' = Tail(queue)
          /\ deferred' = AfterCheck(c)
          /\ UNCHANGED <<store, timers, streak>>
  /\ UNCHANGED <<now, appState, route, mounted, inst, calls, alerts,
                 authCount, lifeCount, homeVia>>

\* checkLockoutStatus, LoginScreen.tsx 816-817: the expired lockout's second
\* removeItem
checkLockoutStatusExpired(c) ==
  /\ c \in StorageHead /\ c.kind = "check" /\ c.pc = "c3"
  /\ store' = [store EXCEPT !.failedBiometricAttempts = None]
  /\ queue' = Append(Tail(queue), [c EXCEPT !.pc = "c4"])
  /\ UNCHANGED <<now, appState, route, mounted, inst, ui, timers, deferred,
                 calls, alerts, authCount, lifeCount, homeVia, streak>>

\* checkLockoutStatus, LoginScreen.tsx 821-823, after an expired lockout was
\* cleared: failedAttempts is still the value read at line 800
checkLockoutStatusDone(c) ==
  /\ c \in StorageHead /\ c.kind = "check" /\ c.pc = "c4"
  /\ ui' = IF c.y # None
           THEN UiSet(c.inst, [ui EXCEPT !.authAttempts = Val(c.y)])
           ELSE ui
  /\ queue' = Tail(queue)
  /\ deferred' = AfterCheck(c)
  /\ UNCHANGED <<now, appState, route, mounted, inst, store, timers, calls,
                 alerts, authCount, lifeCount, homeVia, streak>>

\* -------------------------------------------------------- handleBiometricAuth
\* handleBiometricAuth, LoginScreen.tsx 979-1018, called by a closure that
\* reads env: the guard, the old prompt timeout cleared, the new one armed,
\* TouchID.authenticate called
handleBiometricAuth(env, i) ==
  IF env.isAuthenticating \/ env.isLockedOut
  THEN UNCHANGED <<ui, timers, calls, authCount>>
  ELSE /\ authCount < MaxAuth
       /\ authCount' = authCount + 1
       /\ ui' = UiSet(i, [ui EXCEPT !.isAuthenticating = TRUE])
       /\ timers' = Arm(ClearHeld(timers, i, {"bio"}),
                        Timer("bio", "bioAuth", now + BIOMETRIC_TIMEOUT, env, i))
       /\ calls' = calls \cup
            { Call("auth", "auth", authCount + 1, env, i, None, None, "") }

\* the "Use <biometric>" button, LoginScreen.tsx 1309-1318
PressBiometricButton ==
  /\ mounted /\ appState = "active" /\ alerts = {} /\ Quiet
  /\ ~ui.isAuthenticating /\ ~ui.isLockedOut /\ ui.biometricAvailable
  /\ handleBiometricAuth(CurEnv, inst)
  /\ UNCHANGED <<now, appState, route, mounted, inst, store, deferred, queue,
                 alerts, lifeCount, homeVia, streak>>

\* setTimeout(() => handleBiometricAuth(), ...) fires: LoginScreen.tsx 784,
\* 865, 1114
DeferredAuth(d) ==
  /\ d \in deferred
  /\ deferred' = deferred \ {d}
  /\ handleBiometricAuth(d.env, d.inst)
  /\ UNCHANGED <<now, appState, route, mounted, inst, store, queue, alerts,
                 lifeCount, homeVia, streak>>

\* what TouchID.authenticate settles with: resolved, or rejected with a code.
\* "AuthenticationFailed" is the no-match code and "Other" any other code the
\* catch block does not name; the catch block treats the two alike.
Outcomes ==
  {"Success", "AuthenticationFailed", "UserCancel", "BiometryNotEnrolled",
   "BiometryNotAvailable", "BiometryLockout", "Other"}

\* the dialog of a system-level failure, LoginScreen.tsx 1061-1094: 'Biometric
\* Not Available' and 'Biometric Temporarily Disabled' differ in their text only
AlertFor(outcome) ==
  IF outcome = "BiometryNotEnrolled" THEN "BiometryNotEnrolled"
  ELSE "BiometryNotAvailable"

\* handleFailedAttempt, LoginScreen.tsx 942: the count the closure computes
newAttemptCount(env) == env.authAttempts + 1

\* handleBiometricAuth, LoginScreen.tsx 1102-1103
remainingAttempts(env) == MAX_FAILED_ATTEMPTS - (env.authAttempts + 1)

\* a variant of the reset that takes one failure off the count
removeFailedAttemptsDecrement(st) ==
  [st EXCEPT !.failedBiometricAttempts =
     IF st.failedBiometricAttempts # None /\ Val(st.failedBiometricAttempts) > 1
     THEN Some(Val(st.failedBiometricAttempts) - 1) ELSE None]

\* 'Reset security counters', LoginScreen.tsx 1029
removeFailedAttempts(st) == [st EXCEPT !.failedBiometricAttempts = None]

\* LoginScreen.tsx 1030
removeLockout(st) == [st EXCEPT !.biometricLockout = None]

\* what the success path does to the ledger keys, LoginScreen.tsx 1028-1030
recordSuccess(st) == removeLockout(removeFailedAttempts(st))

\* a variant of the catch block without the cancel branch
isCancelNever(outcome) == FALSE

\* the catch block's first test, LoginScreen.tsx 1048-1058: the user or the
\* system dismissed the prompt
isCancel(outcome) == outcome = "UserCancel"

\* a variant of the catch block without the system-level branches
isSystemFailureNever(outcome) == FALSE

\* the catch block's system-level branches, LoginScreen.tsx 1061-1094
isSystemFailure(outcome) ==
  outcome \in {"BiometryNotEnrolled", "BiometryNotAvailable", "BiometryLockout"}

\* TouchID.authenticate settles for call c, LoginScreen.tsx 1015-1097: up to
\* the first await of the success path (1029), of handleFailedAttempt (945),
\* or to the return of the catch block
AuthResult(c, outcome) ==
  /\ c \in calls /\ c.kind = "auth" /\ c.pc = "auth"
  /\ outcome \in Outcomes
  /\ timers' = ClearHeld(timers, c.inst, {"bio"})
  /\ calls' = calls \ {c}
  /\ IF outcome = "Success"
     THEN /\ store' = removeFailedAttempts(store)
          /\ queue' = Append(queue, [c EXCEPT !.pc = "s1", !.y = Some(now)])
          /\ streak' = 0
          /\ UNCHANGED <<ui, alerts>>
     ELSE IF isCancel(outcome)
     THEN /\ ui' = UiSet(c.inst, [ui EXCEPT !.isAuthenticating = FALSE,
                                            !.showFallbackOptions = TRUE])
          /\ UNCHANGED <<store, queue, alerts, streak>>
     ELSE IF isSystemFailure(outcome)
     THEN /\ ui' = UiSet(c.inst, [ui EXCEPT !.isAuthenticating = FALSE])
          /\ alerts' = alerts \cup {Alert(AlertFor(outcome), c.env, c.inst, 0)}
          /\ UNCHANGED <<store, queue, streak>>
     ELSE /\ ui' = UiSet(c.inst, [ui EXCEPT !.isAuthenticating = FALSE,
                                  !.authAttempts = newAttemptCount(c.env)])
          /\ store' = [store EXCEPT !.failedBiometricAttempts =
                                       Some(newAttemptCount(c.env))]
          /\ queue' = Append(queue,
               [c EXCEPT !.pc = "f1", !.y = Some(newAttemptCount(c.env)),
                         !.k = streak + 1])
          /\ streak' = streak + 1
          /\ UNCHANGED alerts
  /\ UNCHANGED <<now, appState, route, mounted, inst, deferred, authCount,
                 lifeCount, homeVia>>

\* TouchID.authenticate rejects for call c with a counted error and the
\* setItem('failedBiometricAttempts') of handleFailedAttempt rejects,
\* LoginScreen.tsx 1044-1050, 1097, 942-948: setAuthAttempts has run, nothing is
\* written, and the rejection leaves handleFailedAttempt and the catch block
\* that awaits it; no handler catches it
handleFailedAttemptWriteError(c, outcome) ==
  /\ c \in calls /\ c.kind = "auth" /\ c.pc = "auth"
  /\ c.id <= MaxErrAttempt
  /\ outcome \in Outcomes \ {"Success"}
  /\ ~isCancel(outcome) /\ ~isSystemFailure(outcome)
  /\ timers' = ClearHeld(timers, c.inst, {"bio"})
  /\ calls' = calls \ {c}
  /\ ui' = UiSet(c.inst, [ui EXCEPT !.isAuthenticating = FALSE,
                                    !.authAttempts = newAttemptCount(c.env)])
  /\ streak' = streak + 1
  /\ UNCHANGED <<now, appState, route, mounted, inst, store, deferred, queue,
                 alerts, authCount, lifeCount, homeVia>>

\* the success path after each of its first three awaits, LoginScreen.tsx
\* 1030-1038; the last setItem and the spring animation are awaited together
AuthSuccessStore(c) ==
  /\ c \in StorageHead /\ c.kind = "auth" /\ c.pc \in {"s1", "s2", "s3"}
  /\ store' = IF c.pc = "s1" THEN removeLockout(store)
              ELSE IF c.pc = "s2"
              THEN [store EXCEPT !.lastBiometricAuth = Some(now)]
              ELSE [store EXCEPT !.securityToken = TRUE]
  /\ IF c.pc = "s3"
     THEN /\ queue' = Tail(queue)
          /\ calls' = calls \cup {[c EXCEPT !.pc = "s4"]}
     ELSE /\ queue' = Append(Tail(queue),
                 [c EXCEPT !.pc = IF c.pc = "s1" THEN "s2" ELSE "s3"])
          /\ calls' = calls
  /\ UNCHANGED <<now, appState, route, mounted, inst, ui, timers, deferred,
                 alerts, authCount, lifeCount, homeVia, streak>>

\* an AsyncStorage call of the success path rejects, LoginScreen.tsx 1030-1035:
\* the call c was about to issue has no effect and control passes to the
\* catch block (1044-1050), where the error, having no code the block names,
\* reaches handleFailedAttempt (1097, 942-948)
AuthSuccessStoreError(c) ==
  /\ c \in StorageHead /\ c.kind = "auth" /\ c.pc \in {"s1", "s2", "s3"}
  /\ c.id <= MaxErrAttempt
  /\ timers' = ClearHeld(timers, c.inst, {"bio"})
  /\ ui' = UiSet(c.inst, [ui EXCEPT !.isAuthenticating = FALSE,
                                    !.authAttempts = newAttemptCount(c.env)])
  /\ store' = [store EXCEPT !.failedBiometricAttempts =
                              Some(newAttemptCount(c.env))]
  /\ queue' = Append(Tail(queue),
       [c EXCEPT !.pc = "f1", !.y = Some(newAttemptCount(c.env)),
                 !.k = streak + 1])
  /\ streak' = streak + 1
  /\ UNCHANGED <<now, appState, route, mounted, inst, deferred, calls, alerts,
                 authCount, lifeCount, homeVia>>

\* the spring animation ends: navigation.replace('Home'), LoginScreen.tsx 1038-1043
AuthSuccessNavigate(c) ==
  /\ c \in calls /\ c.kind = "auth" /\ c.pc = "s4"
  /\ calls' = calls \ {c}
  /\ Navigate(c.inst, "Home", "biometric")
  /\ UNCHANGED <<now, appState, inst, store, deferred, queue, alerts,
                 authCount, lifeCount, streak>>

\* handleFailedAttempt after its setItem('failedBiometricAttempts'),
\* LoginScreen.tsx 950-960, and for a count below the threshold the rest of
\* handleBiometricAuth, 1099-1119
handleFailedAttempt(c) ==
  /\ c \in StorageHead /\ c.kind = "auth" /\ c.pc = "f1"
  /\ IF Val(c.y) >= MAX_FAILED_ATTEMPTS
     THEN /\ store' = [store EXCEPT !.biometricLockout =
                 Some(LockoutRecord(now, Val(c.y)))]
          /\ queue' = Append(Tail(queue),
               [c EXCEPT !.pc = "f2", !.y = Some(now + LOCKOUT_DURATION)])
          /\ UNCHANGED alerts
     ELSE /\ alerts' = alerts \cup
               {Alert("AuthenticationFailed", c.env, c.inst,
                      remainingAttempts(c.env))}
          /\ queue' = Tail(queue)
          /\ UNCHANGED store
  /\ UNCHANGED <<now, appState, route, mounted, inst, ui, timers, deferred,
                 calls, authCount, lifeCount, homeVia, streak>>

\* handleFailedAttempt when its setItem('biometricLockout') rejects,
\* LoginScreen.tsx 950-960: the count is persisted, the lockout is not, and the
\* rejection leaves handleFailedAttempt before setIsLockedOut; no handler
\* catches it
handleFailedAttemptLockoutWriteError(c) ==
  /\ c \in StorageHead /\ c.kind = "auth" /\ c.pc = "f1"
  /\ c.id <= MaxErrAttempt
  /\ Val(c.y) >= MAX_FAILED_ATTEMPTS
  /\ queue' = Tail(queue)
  /\ UNCHANGED <<now, appState, route, mounted, inst, store, ui, timers,
                 deferred, calls, alerts, authCount, lifeCount, homeVia,
                 streak>>

\* handleFailedAttempt after its setItem('biometricLockout'),
\* LoginScreen.tsx 962-973
handleFailedAttemptLocked(c) ==
  /\ c \in StorageHead /\ c.kind = "auth" /\ c.pc = "f2"
  /\ ui' = UiSet(c.inst, [ui EXCEPT !.isLockedOut = TRUE,
                                    !.lockoutEndTime = Val(c.y)])
  /\ timers' = startLockoutTimer(timers, LOCKOUT_DURATION, c.env, c.inst)
  /\ alerts' = alerts \cup {Alert("Locked", c.env, c.inst, 0)}
  /\ queue' = Tail(queue)
  /\ UNCHANGED <<now, appState, route, mounted, inst, store, deferred, calls,
                 authCount, lifeCount, homeVia, streak>>

\* -------------------------------------------------------------------- timers
\* the session timer's callback, LoginScreen.tsx 767-770 and 788-795
SessionTimeout(t) ==
  /\ t \in timers /\ t.kind = "session" /\ now >= t.due
  /\ timers' = timers \ {t}
  /\ ui' = UiSet(t.inst, [ui EXCEPT !.sessionExpired = TRUE])
  /\ alerts' = alerts \cup {Alert("SessionExpired", t.env, t.inst, 0)}
  /\ UNCHANGED <<now, appState, route, mounted, inst, store, deferred, calls,
                 queue, authCount, lifeCount, homeVia, streak>>

\* the lockout timer's callback, LoginScreen.tsx 830-836: both removeItem
\* calls are issued in the same turn
LockoutTimeout(t) ==
  /\ t \in timers /\ t.kind = "lockout" /\ now >= t.due
  /\ timers' = timers \ {t}
  /\ ui' = UiSet(t.inst, [ui EXCEPT !.isLockedOut = FALSE,
                                    !.lockoutEndTime = 0,
                                    !.authAttempts = 0])
  /\ store' = [store EXCEPT !.biometricLockout = None,
                            !.failedBiometricAttempts = None]
  /\ streak' = 0
  /\ UNCHANGED <<now, appState, route, mounted, inst, deferred, calls, queue,
                 alerts, authCount, lifeCount, homeVia>>

\* the prompt timeout armed by initializeBiometric, LoginScreen.tsx 868-873:
\* it acts only if the render that armed it was authenticating
InitBiometricTimeout(t) ==
  /\ t \in timers /\ t.kind = "bioInit" /\ now >= t.due
  /\ timers' = timers \ {t}
  /\ IF t.env.isAuthenticating
     THEN /\ ui' = UiSet(t.inst, [ui EXCEPT !.isAuthenticating = FALSE])
          /\ alerts' = alerts \cup {Alert("Timeout", t.env, t.inst, 0)}
     ELSE UNCHANGED <<ui, alerts>>
  /\ UNCHANGED <<now, appState, route, mounted, inst, store, deferred, calls,
                 queue, authCount, lifeCount, homeVia, streak>>

\* the prompt timeout of handleBiometricAuth, were its callback to end the
\* authenticating state without a dialog
BiometricTimeoutSilent(t) ==
  /\ t \in timers /\ t.kind = "bioAuth" /\ now >= t.due
  /\ timers' = timers \ {t}
  /\ ui' = UiSet(t.inst, [ui EXCEPT !.isAuthenticating = FALSE])
  /\ UNCHANGED <<now, appState, route, mounted, inst, store, deferred, calls,
                 queue, alerts, authCount, lifeCount, homeVia, streak>>

\* the prompt timeout armed by handleBiometricAuth, LoginScreen.tsx 1009-1013
\* and handleBiometricTimeout, 882-888
BiometricTimeout(t) ==
  /\ t \in timers /\ t.kind = "bioAuth" /\ now >= t.due
  /\ timers' = timers \ {t}
  /\ ui' = UiSet(t.inst, [ui EXCEPT !.isAuthenticating = FALSE])
  /\ alerts' = alerts \cup {Alert("Timeout", t.env, t.inst, 0)}
  /\ UNCHANGED <<now, appState, route, mounted, inst, store, deferred, calls,
                 queue, authCount, lifeCount, homeVia, streak>>

\* ------------------------------------------------- hand-off to other screens
\* handleUsePassword, were it to go to Login without logging the event
handleUsePasswordNoEvent(env, i) ==
  /\ store' = store
  /\ queue' = Append(queue,
                     Call("usePassword", "p1", 0, env, i, None, None, ""))

\* handleUsePassword, were it to clear the ledger on its way to Login
handleUsePasswordClearsLedger(env, i) ==
  /\ store' = [store EXCEPT !.lastSecurityEvent =
                 Some([timestamp |-> now, attempts |-> env.authAttempts]),
                            !.failedBiometricAttempts = None,
                            !.biometricLockout = None]
  /\ queue' = Append(queue,
                     Call("usePassword", "p1", 0, env, i, None, None, ""))

\* handleUsePassword, LoginScreen.tsx 1176-1188, up to its await
handleUsePassword(env, i) ==
  /\ store' = [store EXCEPT !.lastSecurityEvent =
                 Some([timestamp |-> now, attempts |-> env.authAttempts])]
  /\ queue' = Append(queue,
                     Call("usePassword", "p1", 0, env, i, None, None, ""))

\* the "Use Password Instead" button, LoginScreen.tsx 1320-1332
PressUsePassword ==
  /\ mounted /\ appState = "active" /\ alerts = {} /\ Quiet
  /\ \/ ui.showFallbackOptions
     \/ ui.authAttempts >= 1
     \/ ~ui.biometricAvailable
     \/ ui.isLockedOut
  /\ handleUsePassword(CurEnv, inst)
  /\ UNCHANGED <<now, appState, route, mounted, inst, ui, timers, deferred,
                 calls, alerts, authCount, lifeCount, homeVia, streak>>

\* handleUsePassword, LoginScreen.tsx 1189
UsePasswordNavigate(c) ==
  /\ c \in StorageHead /\ c.kind = "usePassword"
  /\ queue' = Tail(queue)
  /\ Navigate(c.inst, "Login", "")
  /\ UNCHANGED <<now, appState, inst, store, deferred, calls, alerts,
                 authCount, lifeCount, streak>>

\* handleSignOut, LoginScreen.tsx 1221-1236 and 1343-1345: the user presses
\* "Sign Out" and confirms the dialog ('Cancel' changes nothing); multiRemove
\* is issued
handleSignOut ==
  /\ mounted /\ appState = "active" /\ Quiet /\ alerts = {}
  /\ store' = [store EXCEPT !.isLoggedIn = FALSE,
                            !.lastBiometricAuth = None,
                            !.failedBiometricAttempts = None,
                            !.biometricLockout = None,
                            !.securityToken = FALSE]
  /\ streak' = 0
  /\ queue' = Append(queue,
                     Call("signOut", "o1", 0, CurEnv, inst, None, None, ""))
  /\ UNCHANGED <<now, appState, route, mounted, inst, ui, timers, deferred,
                 calls, alerts, authCount, lifeCount, homeVia>>

\* handleSignOut's onPress after multiRemove, LoginScreen.tsx 1238
SignOutNavigate(c) ==
  /\ c \in StorageHead /\ c.kind = "signOut"
  /\ queue' = Tail(queue)
  /\ Navigate(c.inst, "Login", "")
  /\ UNCHANGED <<now, appState, inst, store, deferred, calls, alerts,
                 authCount, lifeCount, streak>>

\* handleEmergencyAccess, LoginScreen.tsx 1192-1212 and 1334-1341: the user
\* presses "Emergency Access" and confirms the dialog ('Cancel' changes
\* nothing); the first setItem is issued
handleEmergencyAccess ==
  /\ mounted /\ appState = "active" /\ Quiet /\ alerts = {}
  /\ ui.authAttempts >= 2 /\ ~ui.isLockedOut
  /\ store' = [store EXCEPT !.emergencyAccess = TRUE]
  /\ queue' = Append(queue,
                     Call("emergency", "e1", 0, CurEnv, inst, None, None, ""))
  /\ UNCHANGED <<now, appState, route, mounted, inst, ui, timers, deferred,
                 calls, alerts, authCount, lifeCount, homeVia, streak>>

\* handleEmergencyAccess's onPress after its first setItem, LoginScreen.tsx 1213
EmergencyDisable(c) ==
  /\ c \in StorageHead /\ c.kind = "emergency" /\ c.pc = "e1"
  /\ store' = [store EXCEPT !.biometricEnabled = "false"]
  /\ queue' = Append(Tail(queue), [c EXCEPT !.pc = "e2"])
  /\ UNCHANGED <<now, appState, route, mounted, inst, ui, timers, deferred,
                 calls, alerts, authCount, lifeCount, homeVia, streak>>

\* handleEmergencyAccess's onPress, LoginScreen.tsx 1214
EmergencyNavigate(c) ==
  /\ c \in StorageHead /\ c.kind = "emergency" /\ c.pc = "e2"
  /\ queue' = Tail(queue)
  /\ Navigate(c.inst, "Home", "emergency")
  /\ UNCHANGED <<now, appState, inst, store, deferred, calls, alerts,
                 authCount, lifeCount, streak>>

\* -------------------------------------------------------------------- alerts
\* the buttons each dialog offers
Buttons(kind) ==
  CASE kind = "AuthenticationFailed" -> {"Try Again", "Use Password"}
    [] kind = "Timeout" -> {"Try Again"}
    [] kind = "SessionExpired" -> {"OK"}
    [] kind = "Locked" -> {"OK"}
    [] kind = "BiometryNotEnrolled" -> {"Use Password", "Settings"}
    [] kind = "BiometryNotAvailable" -> {"Use Password"}
    [] OTHER -> {}

\* the user presses a button of a dialog: the onPress closures of
\* LoginScreen.tsx 792, 886, 1066-1072, 1082, 1091, 1111-1117, 969
PressAlert(a, button) ==
  /\ a \in alerts /\ appState = "active" /\ Quiet
  /\ button \in Buttons(a.kind)
  /\ alerts' = alerts \ {a}
  /\ IF button = "Try Again" /\ a.kind = "AuthenticationFailed"
     THEN /\ deferred' = deferred \cup {[env |-> a.env, inst |-> a.inst]}
          /\ UNCHANGED <<store, ui, timers, calls, queue, authCount>>
     ELSE IF button = "Try Again" \/ (button = "OK" /\ a.kind = "SessionExpired")
     THEN /\ handleBiometricAuth(a.env, a.inst)
          /\ UNCHANGED <<store, deferred, queue>>
     ELSE IF button = "Use Password"
     THEN /\ handleUsePassword(a.env, a.inst)
          /\ UNCHANGED <<ui, timers, deferred, calls, authCount>>
     ELSE UNCHANGED <<store, ui, timers, deferred, calls, queue, authCount>>
  /\ UNCHANGED <<now, appState, route, mounted, inst, lifeCount, homeVia,
                 streak>>

\* ----------------------------------------------------------------- lifecycle
\* checkBiometricRequirement, were it to ask for re-authentication on every
\* return to the foreground
checkBiometricRequirementAlways ==
  store.biometricEnabled = "true"

\* checkBiometricRequirement of the Home screen, unnamed/part_000 77-95
checkBiometricRequirement ==
  /\ store.biometricEnabled = "true"
  /\ store.lastBiometricAuth # None
  /\ now - Val(store.lastBiometricAuth) > HOME_REAUTH_AFTER

\* handleAppBackground, were it to wipe the lockout with the session
InvalidateSessionAndLockout(st) ==
  [st EXCEPT !.lastBiometricAuth = None, !.biometricLockout = None]

\* handleAppBackground, were it to keep lastBiometricAuth
InvalidateSessionKept(st) == st

\* handleAppBackground, LoginScreen.tsx 775: removeItem('lastBiometricAuth')
InvalidateSession(st) == [st EXCEPT !.lastBiometricAuth = None]

\* AppState emits 'change' with nextAppState = next.  The listener of the
\* mounted BiometricScreen (LoginScreen.tsx 737-745) runs handleAppBackground
\* (773-775, up to its await) or handleAppForeground (779-782, up to the first
\* await of checkLockoutStatus); the listener of the Home screen
\* (unnamed/part_000 43-48) runs checkBiometricRequirement.  The listener of
\* App.tsx 33-39 only sets currentRoute, which nothing reads for navigation.
AppStateChange(next) ==
  /\ lifeCount < MaxLifecycle
  /\ route # "Launch"
  /\ next \in {"active", "background", "inactive"} \ {appState}
  /\ appState = "active" \/ next = "active"
  /\ lifeCount' = lifeCount + 1
  /\ appState' = next
  /\ IF mounted /\ next # "active"
     THEN /\ store' = InvalidateSession(store)
          /\ queue' = Append(queue,
               Call("background", "b1", 0, Env0, inst, None,
                    store.lastBiometricAuth, Phase))
          /\ UNCHANGED <<ui, route>>
     ELSE IF mounted
     THEN /\ ui' = [ui EXCEPT !.sessionExpired = TRUE]
          /\ queue' = Append(queue,
               Call("check", "c1", 1, Env0, inst, store.biometricLockout,
                    None, ""))
          /\ UNCHANGED <<store, route>>
     ELSE IF route = "Home" /\ next = "active" /\ checkBiometricRequirement
     THEN /\ inst < MaxMounts
          /\ route' = "Biometric"
          /\ UNCHANGED <<store, queue, ui>>
     ELSE UNCHANGED <<store, queue, ui, route>>
  /\ UNCHANGED <<now, mounted, inst, timers, deferred, calls, alerts,
                 authCount, homeVia, streak>>

\* handleAppBackground after its await, LoginScreen.tsx 776
handleAppBackground(c) ==
  /\ c \in StorageHead /\ c.kind = "background"
  /\ queue' = Tail(queue)
  /\ timers' = clearTimers(timers, c.inst)
  /\ UNCHANGED <<now, appState, route, mounted, inst, store, ui, deferred,
                 calls, alerts, authCount, lifeCount, homeVia, streak>>

\* ------------------------------------------------------- Home, Login screens
\* handleLogout's onPress, unnamed/part_000 169-180
handleLogout ==
  /\ route = "Home" /\ appState = "active" /\ Quiet
  /\ store' = [store EXCEPT !.isLoggedIn = FALSE, !.lastBiometricAuth = None]
  /\ route' = "Login"
  /\ UNCHANGED <<now, appState, mounted, inst, ui, timers, deferred, calls,
                 queue, alerts, authCount, lifeCount, homeVia, streak>>

\* handleLogin with the stored credentials, LoginScreen.tsx 329-354
handleLogin ==
  /\ route = "Login" /\ appState = "active" /\ Quiet
  /\ store' = [store EXCEPT !.isLoggedIn = TRUE,
                            !.lastBiometricAuth = Some(now)]
  /\ route' = "Home"
  /\ homeVia' = "login"
  /\ UNCHANGED <<now, appState, mounted, inst, ui, timers, deferred, calls,
                 queue, alerts, authCount, lifeCount, streak>>

\* handleBiometricLogin with TouchID.authenticate resolved,
\* LoginScreen.tsx 389-424
handleBiometricLogin ==
  /\ route = "Login" /\ appState = "active" /\ Quiet
  /\ store.biometricEnabled = "true"
  /\ store' = [store EXCEPT !.isLoggedIn = TRUE,
                            !.lastBiometricAuth = Some(now)]
  /\ route' = "Home"
  /\ homeVia' = "loginBiometric"
  /\ UNCHANGED <<now, appState, mounted, inst, ui, timers, deferred, calls,
                 queue, alerts, authCount, lifeCount, streak>>

\* --------------------------------------------------------------------- clock
\* TickMs pass.  Storage calls, the animation and the 500 ms / 1000 ms triggers
\* are far shorter than a tick; while the app is active a due timer fires
\* before the clock moves on.
Tick ==
  /\ now + TickMs <= MaxNow
  /\ route # "Launch"
  /\ ~(route = "Biometric" /\ ~mounted)
  /\ Quiet
  /\ appState = "active" =>
       /\ deferred = {}
       /\ \A t \in timers : t.due > now
  /\ now' = now + TickMs
  /\ UNCHANGED <<appState, route, mounted, inst, store, ui, timers, deferred,
                 calls, queue, alerts, authCount, lifeCount, homeVia,
                 streak>>

Next ==
  \/ checkAuthStatus
  \/ BiometricMount
  \/ \E c \in calls : initializeBiometric(c)
  \/ \E c \in StorageHead : initializeBiometricEnabled(c)
  \/ \E c \in StorageHead : checkLockoutStatusRead(c)
  \/ \E c \in StorageHead : checkLockoutStatus(c)
  \/ \E c \in StorageHead : checkLockoutStatusExpired(c)
  \/ \E c \in StorageHead : checkLockoutStatusDone(c)
  \/ PressBiometricButton
  \/ \E d \in deferred : DeferredAuth(d)
  \/ \E c \in calls, o \in Outcomes : AuthResult(c, o)
  \/ \E c \in StorageHead : AuthSuccessStore(c)
  \/ \E c \in StorageHead : AuthSuccessStoreError(c)
  \/ \E c \in calls : AuthSuccessNavigate(c)
  \/ \E c \in StorageHead : handleFailedAttempt(c)
  \/ \E c \in StorageHead : handleFailedAttemptLocked(c)
  \/ \E c \in calls, o \in Outcomes : handleFailedAttemptWriteError(c, o)
  \/ \E c \in StorageHead : handleFailedAttemptLockoutWriteError(c)
  \/ \E t \in timers : SessionTimeout(t)
  \/ \E t \in timers : LockoutTimeout(t)
  \/ \E t \in timers : InitBiometricTimeout(t)
  \/ \E t \in timers : BiometricTimeout(t)
  \/ PressUsePassword
  \/ \E c \in StorageHead : UsePasswordNavigate(c)
  \/ handleSignOut
  \/ handleEmergencyAccess
  \/ \E c \in StorageHead : SignOutNavigate(c)
  \/ \E c \in StorageHead : EmergencyDisable(c)
  \/ \E c \in StorageHead : EmergencyNavigate(c)
  \/ \E a \in alerts, b \in {"Try Again", "Use Password", "OK", "Settings"} :
       PressAlert(a, b)
  \/ \E n \in {"active", "background", "inactive"} : AppStateChange(n)
  \/ \E c \in StorageHead : handleAppBackground(c)
  \/ handleLogout
  \/ handleLogin
  \/ handleBiometricLogin
  \/ Tick

Spec == Init /\ [][Next]_vars

\* ==================================================================== claims
\* a persisted lockout whose endTime is still ahead, as checkLockoutStatus
\* tests it (LoginScreen.tsx 804-808)
LockoutRunning ==
  store.biometricLockout # None /\ now < Val(store.biometricLockout).endTime

\* C1: the k-th consecutive counted failure, however its attempt was started,
\* leaves the screen not locked out and reports MAX_FAILED_ATTEMPTS - k
\* remaining attempts while k < MAX_FAILED_ATTEMPTS; the failure number
\* MAX_FAILED_ATTEMPTS persists the lockout record ending LOCKOUT_DURATION
\* after it.
C1_ConsecutiveFailuresLock ==
  [][\A c \in StorageHead :
       handleFailedAttempt(c) =>
         IF c.k < MAX_FAILED_ATTEMPTS
         THEN /\ store'.biometricLockout = None
              /\ Alert("AuthenticationFailed", c.env, c.inst,
                       MAX_FAILED_ATTEMPTS - c.k) \in alerts'
         ELSE c.k = MAX_FAILED_ATTEMPTS =>
                store'.biometricLockout =
                  Some(LockoutRecord(now, MAX_FAILED_ATTEMPTS))]_vars

\* C2: TouchID.authenticate is never called while a persisted lockout record
\* with endTime > now exists.
C2_NoAuthWhileLockedOut ==
  [][authCount' # authCount => ~LockoutRunning]_vars

\* C3: Home is entered only by a biometric success on the Biometric screen,
\* by a sign-in on the Login screen, or by the launch routing; never by
\* Emergency Access, Use Password or Sign Out.
C3_HomeOnlyAfterProof ==
  route = "Home" => homeVia \in {"launch", "biometric", "login", "loginBiometric"}

HomeForeground ==
  /\ route = "Home" /\ appState # "active" /\ appState' = "active"
  /\ store.isLoggedIn /\ store.biometricEnabled = "true"

C6_ExpiredLockoutResets ==
  [][\A c \in StorageHead :
       (checkLockoutStatusDone(c) /\ c.id = 0 /\ Live(c.inst)) =>
         /\ store'.biometricLockout = None
         /\ store'.failedBiometricAttempts = None
         /\ ~ui'.isLockedOut
         /\ ui'.authAttempts = 0]_vars

\* C7: whenever a biometricLockout record is persisted, the persisted
\* failedBiometricAttempts is present and at least MAX_FAILED_ATTEMPTS, and
\* the record's endTime is greater than its timestamp.
C7_LockoutImpliesCount ==
  store.biometricLockout # None =>
    /\ store.failedBiometricAttempts # None
    /\ Val(store.failedBiometricAttempts) >= MAX_FAILED_ATTEMPTS
    /\ Val(store.biometricLockout).endTime > Val(store.biometricLockout).timestamp

\* the persisted failed-attempt count, an absent key counting as 0
\* (LoginScreen.tsx 800-802, 821-823)
PersistedCount ==
  IF store.failedBiometricAttempts = None THEN 0
  ELSE Val(store.failedBiometricAttempts)

\* C8: each counted failure sets the persisted failedBiometricAttempts to its
\* previous persisted value plus one, absent counting as 0, whichever way the
\* attempt was started.
C8_FailureIncrementsPersistedCount ==
  [][\A c \in calls :
       AuthResult(c, "AuthenticationFailed") =>
         store'.failedBiometricAttempts = Some(PersistedCount + 1)]_vars

\* handleFailedAttempt has persisted a count that reaches the threshold and
\* has not yet persisted the lockout record (LoginScreen.tsx 945-953)
ThresholdHalfRecorded ==
  \E j \in 1..Len(queue) :
    /\ queue[j].kind = "auth" /\ queue[j].pc = "f1"
    /\ Val(queue[j].y) >= MAX_FAILED_ATTEMPTS

\* a step in which checkLockoutStatus, called on mount or by
\* handleAppForeground, reads failedBiometricAttempts (LoginScreen.tsx 800-802)
StatusReadStep == \E c \in StorageHead : checkLockoutStatusRead(c)

\* C9: recording the failure that reaches the threshold is atomic: no status
\* read happens while the persisted failedBiometricAttempts has reached
\* MAX_FAILED_ATTEMPTS and the lockout record of that failure is not yet
\* persisted.
C9_ThresholdFailureAtomic ==
  [][StatusReadStep =>
       ~(/\ ThresholdHalfRecorded
         /\ PersistedCount >= MAX_FAILED_ATTEMPTS
         /\ store.biometricLockout = None)]_vars

\* a step of the success path that removes a ledger key (LoginScreen.tsx
\* 1029-1030)
SuccessStep ==
  \/ \E c \in calls : AuthResult(c, "Success")
  \/ \E c \in StorageHead : AuthSuccessStore(c)

\* a step removes one of the two ledger keys while a lockout is running
RemovedWhileRunning ==
  /\ LockoutRunning
  /\ \/ store'.biometricLockout = None
     \/ (store.failedBiometricAttempts # None
         /\ store'.failedBiometricAttempts = None)

ExpiryStep ==
  \/ \E t \in timers : LockoutTimeout(t)
  \/ \E c \in StorageHead : checkLockoutStatus(c) \/ checkLockoutStatusExpired(c)

Ledger == <<ui.authAttempts, store.failedBiometricAttempts, store.biometricLockout>>

\* C11: when an attempt ends with BiometryNotEnrolled, BiometryNotAvailable or
\* BiometryLockout, the failed-attempt count (in memory and persisted) and the
\* lockout record are unchanged, the screen does not become locked out, and a
\* dialog of that attempt offers 'Use Password'.
C11_SystemFailureKeepsLedger ==
  [][\A c \in calls :
       \A o \in {"BiometryNotEnrolled", "BiometryNotAvailable", "BiometryLockout"} :
         AuthResult(c, o) =>
           /\ Ledger' = Ledger
           /\ ui'.isLockedOut = ui.isLockedOut
           /\ \E a \in alerts' :
                /\ a.env = c.env /\ a.inst = c.inst
                /\ a.kind \in {"BiometryNotEnrolled", "BiometryNotAvailable"}
                /\ "Use Password" \in Buttons(a.kind)]_vars

\* a system-level failure was reported on a screen whose ledger holds failures
C11_Witness ==
  /\ mounted /\ ~ui.isAuthenticating /\ ~ui.isLockedOut
  /\ store.failedBiometricAttempts # None
  /\ \E a \in alerts : a.inst = inst /\ a.kind = "BiometryNotEnrolled"

SuccessNavigates(c) ==
  AuthSuccessNavigate(c) /\ route = "Biometric" /\ route' = "Home"

\* a biometric-prompt timeout of screen instance i is pending
PromptTimeoutPending(i) ==
  \E t \in timers : t.inst = i /\ t.kind = "bioAuth"

\* C13: when an attempt returned Success, then at the navigation to Home
\* failedBiometricAttempts and biometricLockout are absent from the store,
\* lastBiometricAuth holds the time of the success, and no biometric-prompt
\* timeout is pending.
C13_SuccessPostcondition ==
  [][\A c \in calls :
       SuccessNavigates(c) =>
         /\ store.failedBiometricAttempts = None
         /\ store.biometricLockout = None
         /\ store.lastBiometricAuth = c.y
         /\ ~PromptTimeoutPending(c.inst)]_vars

\* the ledger keys of a store
LedgerKeys(st) == <<st.failedBiometricAttempts, st.biometricLockout>>

NoAttemptOutstanding(i) ==
  ~\E c \in calls : c.kind = "auth" /\ c.pc = "auth" /\ c.inst = i

\* C15: a biometric-prompt timeout that fires when the attempt it was armed for
\* has ended changes neither isAuthenticating, nor the ledger, nor the alerts
\* shown.
C15_EndedAttemptTimeoutInert ==
  [][\A t \in timers :
       (BiometricTimeout(t) /\ NoAttemptOutstanding(t.inst)) =>
         /\ ui'.isAuthenticating = ui.isAuthenticating
         /\ Ledger' = Ledger
         /\ alerts' = alerts]_vars

\* the authenticate call c is stale: a newer attempt was started after it
Superseded(c) == c.kind = "auth" /\ c.id < authCount

\* C16: the result of an authenticate call that a newer attempt has made stale
\* is discarded: a late Success neither changes the ledger keys nor navigates
\* to Home, and a late failure changes the failed-attempt count neither in
\* memory nor in the store.
C16_StaleResultDiscarded ==
  [][\A c \in calls :
       Superseded(c) =>
         /\ AuthResult(c, "Success") => LedgerKeys(store') = LedgerKeys(store)
         /\ AuthSuccessNavigate(c) => route' = route
         /\ AuthResult(c, "AuthenticationFailed") =>
              /\ PersistedCount' = PersistedCount
              /\ ui'.authAttempts = ui.authAttempts]_vars

\* the pending callbacks of the timers of the kinds given
Pending(kinds) == {t \in timers : t.kind \in kinds}

\* C17: at every moment at most one session-timeout callback and at most one
\* biometric-prompt-timeout callback are pending.
C17_OneTimerPerKind ==
  /\ Cardinality(Pending({"session"})) <= 1
  /\ Cardinality(Pending({"bioInit", "bioAuth"})) <= 1

\* the 500 ms trigger of handleAppForeground on screen instance i
ForegroundTrigger(i) == [env |-> Env0, inst |-> i]

\* C18: a return to the foreground on an idle, not locked-out Biometric screen
\* makes the engine start an authentication by itself: the event queues
\* handleAppForeground's status re-check, the end of that re-check schedules
\* the trigger, a scheduled trigger is only ever removed by firing, and when it
\* fires on the screen still shown TouchID.authenticate is called and the
\* screen enters the authenticating state.
C18_ForegroundStartsAuth ==
  [][/\ (AppStateChange("active") /\ mounted /\ ~ui.isAuthenticating
           /\ ~ui.isLockedOut) =>
          /\ Len(queue') = Len(queue) + 1
          /\ queue'[Len(queue')].kind = "check"
          /\ queue'[Len(queue')].id = 1
          /\ queue'[Len(queue')].inst = inst
     /\ \A c \in StorageHead :
          (c.kind = "check" /\ c.id = 1 /\ queue' = Tail(queue)) =>
            ForegroundTrigger(c.inst) \in deferred'
     /\ \A d \in deferred : d \notin deferred' => DeferredAuth(d)
     /\ \A d \in deferred :
          (DeferredAuth(d) /\ d = ForegroundTrigger(d.inst) /\ Live(d.inst)) =>
            /\ authCount' = authCount + 1
            /\ ui'.isAuthenticating
            /\ \E c \in calls' \ calls :
                 c.kind = "auth" /\ c.pc = "auth" /\ c.inst = d.inst]_vars

\* after a cancelled prompt, a background and a foreground event, a prompt
\* started from the first render's closure is open
C18_Witness ==
  /\ mounted /\ appState = "active" /\ lifeCount = 2
  /\ ui.sessionExpired /\ ui.showFallbackOptions /\ ui.isAuthenticating
  /\ ~ui.isLockedOut
  /\ deferred = {} /\ queue = << >> /\ authCount = 2
  /\ \E c \in calls : c.kind = "auth" /\ c.pc = "auth" /\ c.id = 2
                      /\ c.env = Env0 /\ c.inst = inst

\* a step of the background or the foreground handling of the Biometric
\* screen: the AppState event, handleAppBackground, or a step of the status
\* re-check handleAppForeground awaits
LifecycleStep ==
  \/ \E next \in {"active", "background", "inactive"} : AppStateChange(next)
  \/ \E c \in StorageHead :
       \/ handleAppBackground(c)
       \/ /\ c.kind = "check" /\ c.id = 1
          /\ \/ checkLockoutStatusRead(c) \/ checkLockoutStatus(c)
             \/ checkLockoutStatusExpired(c) \/ checkLockoutStatusDone(c)

\* C19: while a persisted lockout is running, no step of the background or
\* foreground handling changes or removes the lockout record; and when the
\* re-check of a return to the foreground finds the persisted record still
\* running, the screen it belongs to is locked out with lockoutEndTime equal to
\* the persisted endTime and its expiry timer is armed for endTime - now.
C19_LifecycleKeepsLockout ==
  [][/\ (LifecycleStep /\ LockoutRunning) =>
          store'.biometricLockout = store.biometricLockout
     /\ \A c \in StorageHead :
          (checkLockoutStatus(c) /\ c.id = 1 /\ Live(c.inst)
             /\ LockoutRunning /\ c.x = store.biometricLockout) =>
            /\ ui'.isLockedOut
            /\ ui'.lockoutEndTime = Val(store.biometricLockout).endTime
            /\ \E t \in timers' :
                 /\ t.kind = "lockout" /\ t.held /\ t.inst = c.inst
                 /\ t.due - now = Val(store.biometricLockout).endTime - now]_vars

\* back in the foreground during a lockout, the screen is locked until the
\* persisted endTime
C19_Witness ==
  /\ mounted /\ appState = "active" /\ lifeCount = 2 /\ queue = << >>
  /\ LockoutRunning /\ ui.isLockedOut /\ ui.sessionExpired
  /\ ui.lockoutEndTime = Val(store.biometricLockout).endTime
  /\ \E t \in timers : t.kind = "lockout" /\ t.held /\ t.inst = inst
                       /\ t.due = ui.lockoutEndTime

\* C20: when no lockout-expiry timer of the screen is pending and the status
\* re-check of a return to the foreground finds the persisted lockout expired,
\* then at its end the screen it belongs to is not locked out, its
\* lockoutEndTime is 0 and the store holds no lockout record.
C20_MissedExpiryUnlocks ==
  [][\A c \in StorageHead :
       (checkLockoutStatusDone(c) /\ c.id = 1 /\ Live(c.inst)
          /\ c.x # None /\ now >= Val(c.x).endTime
          /\ Pending({"lockout"}) = {}) =>
         /\ ~ui'.isLockedOut
         /\ ui'.lockoutEndTime = 0
         /\ store'.biometricLockout = None]_vars

\* C21: when the session timeout fires while the Biometric screen is idle or
\* authenticating, the session is marked expired and the persisted
\* lastBiometricAuth is removed.
C21_SessionTimeoutInvalidates ==
  [][\A t \in timers :
       (SessionTimeout(t) /\ Live(t.inst)
          /\ Phase \in {"idle", "authenticating"}) =>
         /\ ui'.sessionExpired
         /\ store'.lastBiometricAuth = None]_vars

\* Math.ceil(a / b) for b > 0, a of either sign
Ceil(a, b) == 0 - ((0 - a) \div b)

\* formatLockoutTime, LoginScreen.tsx 1247-1254, and getBiometricInstructions,
\* 1150-1158: the minutes shown by a render at time t
remainingMinutes(t) == Ceil(ui.lockoutEndTime - t, 60000)

\* C22: every render of a locked-out Biometric screen that has no
\* lockout-expiry timer pending shows a remaining lockout time of at least 1
\* minute (a render is a step that changes the screen's state).
C22_LockoutDisplayAtLeastOne ==
  [][(ui' # ui /\ mounted' /\ ui'.isLockedOut /\ appState' = "active"
        /\ Pending({"lockout"})' = {}) =>
       remainingMinutes(now)' >= 1]_vars

\* max(0, x)
Max0(x) == IF x > 0 THEN x ELSE 0

\* the render shows the attempt text, LoginScreen.tsx 1296
AttemptTextShown ==
  mounted /\ ui.authAttempts > 0 /\ ~ui.isAuthenticating /\ ~ui.isLockedOut

\* the number in the attempt text, LoginScreen.tsx 1298
attemptText == MAX_FAILED_ATTEMPTS - ui.authAttempts

\* C23: the remaining-attempts value of every 'Authentication Failed' alert
\* when it is raised, and of every render of the attempt text made while no
\* handler is mid-execution, equals max(0, MAX_FAILED_ATTEMPTS - persisted
\* failed count).
C23_RemainingAttemptsMatchStore ==
  [][/\ \A a \in alerts' \ alerts :
          a.kind = "AuthenticationFailed" =>
            a.n = Max0(MAX_FAILED_ATTEMPTS - PersistedCount')
     /\ (ui' # ui /\ AttemptTextShown' /\ Quiet') =>
          attemptText' = Max0(MAX_FAILED_ATTEMPTS - PersistedCount')]_vars

\* the TouchID.authenticate calls that have not settled
Outstanding == {c \in calls : c.kind = "auth" /\ c.pc = "auth"}

\* C24: at most one TouchID.authenticate call started by the Biometric screen
\* is outstanding at any time.
C24_OneAuthenticateOutstanding == Cardinality(Outstanding) <= 1

\* C25: on launch the initial route is Login when isLoggedIn is not 'true' or
\* a storage read fails; Home when logged in with biometric disabled; with
\* biometric enabled and supported, Biometric if no lastBiometricAuth is stored
\* or more than 5 minutes passed since it and Home otherwise; with biometric
\* enabled but unsupported, biometricEnabled is set to 'false' and the route
\* is Home.
C25_LaunchRoute ==
  [][\A readFails \in BOOLEAN, supported \in BOOLEAN :
       checkAuthStatusWith(readFails, supported) =>
         IF readFails \/ ~store.isLoggedIn
         THEN route' = "Login" /\ store' = store
         ELSE IF store.biometricEnabled # "true"
         THEN route' = "Home" /\ store' = store
         ELSE IF supported
         THEN /\ store' = store
              /\ route' = IF \/ store.lastBiometricAuth = None
                             \/ now - Val(store.lastBiometricAuth) > 300000
                          THEN "Biometric" ELSE "Home"
         ELSE /\ route' = "Home"
              /\ store' = [store EXCEPT !.biometricEnabled = "false"]]_vars

\* the launch went to Home on a lastBiometricAuth exactly 5 minutes old
C25_Witness ==
  /\ route = "Home" /\ homeVia = "launch" /\ lifeCount = 0
  /\ store.isLoggedIn /\ store.biometricEnabled = "true"
  /\ store.lastBiometricAuth = Some(0 - 300000) /\ now = 0

\* C26: an authenticate call that ends with an unrecognised error code changes
\* neither the failed-attempt count, in memory or persisted, nor the lockout
\* record.
C26_OtherErrorNotCounted ==
  [][\A c \in calls : AuthResult(c, "Other") => Ledger' = Ledger]_vars

\* C27: a storage error raised while a successful authentication is being
\* recorded changes neither the failed-attempt count, in memory or persisted,
\* nor the lockout record.
C27_SuccessStorageErrorNotCounted ==
  [][\A c \in StorageHead : AuthSuccessStoreError(c) => Ledger' = Ledger]_vars

\* the in-memory authAttempts and isLockedOut agree with what is persisted
LedgerAgrees ==
  /\ ui.authAttempts = PersistedCount
  /\ ui.isLockedOut <=> store.biometricLockout # None

\* C28: if a storage write fails while a failed attempt is being recorded on a
\* screen whose in-memory ledger agreed with the persisted one, the two still
\* agree afterwards and an alert reports the error.
C28_FailedWriteKeepsAgreement ==
  [][\A c \in calls \cup StorageHead :
       (/\ \/ \E o \in Outcomes : handleFailedAttemptWriteError(c, o)
           \/ handleFailedAttemptLockoutWriteError(c)
        /\ Live(c.inst) /\ LedgerAgrees) =>
         /\ LedgerAgrees'
         /\ alerts' # alerts]_vars

\* C29: when the Biometric screen is mounted while the persisted lockout is
\* running, the mount's status check leaves isLockedOut true, lockoutEndTime
\* equal to the persisted endTime, authAttempts equal to the record's attempts
\* and an expiry timer armed for endTime, and the mount's initializeBiometric
\* schedules no biometric prompt.
C29_MountDuringLockout ==
  [][\A c \in StorageHead :
       /\ (checkLockoutStatus(c) /\ c.id = 0 /\ Live(c.inst)
             /\ LockoutRunning /\ c.x = store.biometricLockout) =>
            /\ ui'.isLockedOut
            /\ ui'.lockoutEndTime = Val(store.biometricLockout).endTime
            /\ ui'.authAttempts = Val(store.biometricLockout).attempts
            /\ \E t \in timers' :
                 /\ t.kind = "lockout" /\ t.held /\ t.inst = c.inst
                 /\ t.due = Val(store.biometricLockout).endTime
       /\ (initializeBiometricEnabled(c) /\ Live(c.inst) /\ LockoutRunning) =>
            deferred' = deferred]_vars

\* the step in which the initialisation of the screen on display finds the
\* biometric unsupported (isSupported rejects) or not enabled for the user
InitFindsUnavailable(c) ==
  /\ Live(c.inst)
  /\ \/ initializeBiometric(c) /\ queue' = queue
     \/ initializeBiometricEnabled(c) /\ c.s # "true"

\* the screen on display has been marked by its initialisation as without
\* biometric, the fallback options shown
FallbackRequested ==
  mounted /\ ~ui.biometricAvailable /\ ui.showFallbackOptions

\* C30: when initialisation finds the biometric unsupported or not enabled, it
\* marks the biometric unavailable, shows the fallback options, schedules no
\* prompt and arms no prompt timeout; and on a screen so marked, a trigger the
\* screen scheduled by itself (before any attempt was made there is no other
\* kind) neither calls TouchID.authenticate nor arms a prompt timeout.
C30_UnavailableNeverPrompts ==
  [][/\ \A c \in calls \cup StorageHead :
          InitFindsUnavailable(c) =>
            /\ ~ui'.biometricAvailable
            /\ ui'.showFallbackOptions
            /\ deferred' = deferred
            /\ timers' = timers
     /\ \A d \in deferred :
          (/\ FallbackRequested /\ d.inst = inst /\ authCount = 0
           /\ DeferredAuth(d)) =>
            /\ calls' = calls
            /\ timers' = timers]_vars

\* C31: once handleAppBackground has run for the screen on display, none of
\* that screen's session, prompt or lockout timers is still pending, and the
\* backgrounding leaves isLockedOut, isAuthenticating and authAttempts as they
\* were.
C31_BackgroundDisarmsTimers ==
  [][/\ \A c \in StorageHead :
          (handleAppBackground(c) /\ Live(c.inst)) =>
            /\ ~\E t \in timers' : t.inst = c.inst
            /\ CurEnv' = CurEnv
     /\ \A n \in {"background", "inactive"} :
          (AppStateChange(n) /\ mounted) => CurEnv' = CurEnv]_vars

\* the keys handleUsePassword has no business with
SessionKeys(st) ==
  <<st.failedBiometricAttempts, st.biometricLockout, st.lastBiometricAuth,
    st.isLoggedIn>>

\* the user chooses 'Use Password': the button of the screen or of a dialog
UsePasswordChosen ==
  \/ PressUsePassword
  \/ \E a \in alerts : PressAlert(a, "Use Password")

\* C32: choosing 'Use Password' writes lastSecurityEvent with the current time
\* and, once that write has settled, navigates to Login; neither step changes
\* failedBiometricAttempts, biometricLockout, lastBiometricAuth or isLoggedIn,
\* so a running lockout is still running after the hand-off.
C32_UsePasswordKeepsLedger ==
  [][/\ UsePasswordChosen =>
          /\ store'.lastSecurityEvent # None
          /\ Val(store'.lastSecurityEvent).timestamp = now
          /\ SessionKeys(store') = SessionKeys(store)
     /\ \A c \in StorageHead :
          (UsePasswordNavigate(c) /\ Live(c.inst)) =>
            /\ route' = "Login" /\ ~mounted'
            /\ store' = store
            /\ LockoutRunning => LockoutRunning']_vars

\* C32 witness: the locked-out screen has handed off to Login by 'Use
\* Password', the event is logged and the lockout is still running
C32_Witness ==
  /\ route = "Login" /\ LockoutRunning
  /\ store.lastSecurityEvent # None
  /\ store.failedBiometricAttempts = Some(MAX_FAILED_ATTEMPTS)

\* a step that starts no biometric prompt, leaves the ledger and the session
\* keys as they are and does not navigate
Inert ==
  /\ authCount' = authCount
  /\ SessionKeys(store') = SessionKeys(store)
  /\ route' = route

\* C33: once a Biometric screen has handed off (it is no longer on display), a
\* deferred trigger, a timer callback or an authenticate result of that screen
\* starts no biometric prompt, changes no ledger or session key and does not
\* navigate.
C33_HandedOffScreenInert ==
  [][/\ \A d \in deferred : (DeferredAuth(d) /\ ~Live(d.inst)) => Inert
     /\ \A t \in timers :
          (/\ ~Live(t.inst)
           /\ \/ SessionTimeout(t) \/ LockoutTimeout(t)
              \/ InitBiometricTimeout(t) \/ BiometricTimeout(t)) => Inert
     /\ \A c \in calls : \A o \in Outcomes :
          (AuthResult(c, o) /\ ~Live(c.inst)) => Inert]_vars

\* the attempt of the screen on display that TouchID has not answered yet
CurrentAttempt(i) ==
  {c \in calls : c.kind = "auth" /\ c.pc = "auth" /\ c.inst = i /\ Live(i)}

\* C34: when the prompt timeout armed by handleBiometricAuth fires while the
\* attempt is unanswered, isAuthenticating becomes false, a timeout dialog with
\* 'Try Again' appears, and the in-memory count, the persisted count and the
\* lockout record are unchanged; pressing 'Try Again' on that dialog issues a
\* new TouchID.authenticate call.
C34_PromptTimeoutOffersRetry ==
  [][/\ \A t \in timers :
          (BiometricTimeout(t) /\ CurrentAttempt(t.inst) # {}) =>
            /\ ~ui'.isAuthenticating
            /\ \E a \in alerts' :
                 /\ a.kind = "Timeout" /\ a.inst = t.inst /\ a.env = t.env
                 /\ "Try Again" \in Buttons(a.kind)
            /\ Ledger' = Ledger
     /\ \A a \in alerts :
          (/\ a.kind = "Timeout" /\ Live(a.inst)
           /\ PressAlert(a, "Try Again")) =>
            /\ authCount' = authCount + 1
            /\ \E c \in calls' \ calls :
                 c.kind = "auth" /\ c.inst = a.inst /\ c.id = authCount']_vars

\* C34 witness: the prompt timeout has fired on an unanswered attempt: its
\* dialog is on screen, the screen is no longer authenticating and the ledger
\* is empty as before
C34_Witness ==
  /\ \E a \in alerts : a.kind = "Timeout" /\ Live(a.inst)
  /\ CurrentAttempt(inst) # {}
  /\ ~ui.isAuthenticating
  /\ Ledger = <<0, None, None>>

\* the lockout timer the ref of screen i holds is due no earlier than endTime
LockoutTimerHeldFor(ts, i, endTime) ==
  \E t \in ts : /\ t.kind = "lockout" /\ t.held /\ t.inst = i
                /\ t.due >= endTime

\* C35: a lockout timer's callback leaves the screen on display not locked out
\* with lockoutEndTime 0 and authAttempts 0 and removes biometricLockout and
\* failedBiometricAttempts; it runs no earlier than the time the timer is due,
\* and every lockout timer is armed to be due no earlier than the endTime of
\* the lockout record it is armed for.
C35_LockoutExpiryResets ==
  [][/\ \A t \in timers :
          LockoutTimeout(t) =>
            /\ now >= t.due
            /\ store'.biometricLockout = None
            /\ store'.failedBiometricAttempts = None
            /\ Live(t.inst) =>
                 /\ ~ui'.isLockedOut
                 /\ ui'.lockoutEndTime = 0
                 /\ ui'.authAttempts = 0
     /\ \A c \in StorageHead :
          /\ handleFailedAttemptLocked(c) =>
               /\ LockoutTimerHeldFor(timers', c.inst, Val(c.y))
               /\ store.biometricLockout # None =>
                    Val(c.y) >= Val(store.biometricLockout).endTime
          /\ (checkLockoutStatus(c) /\ c.x # None /\ now < Val(c.x).endTime) =>
               LockoutTimerHeldFor(timers', c.inst, Val(c.x).endTime)]_vars

\* C35 witness: the lockout the third failure set has been ended by its timer:
\* the lockout dialog is still on screen, the screen is not locked out, its
\* count is 0 and neither key is stored
C35_Witness ==
  /\ \E a \in alerts : a.kind = "Locked" /\ Live(a.inst)
  /\ ~ui.isLockedOut /\ ui.lockoutEndTime = 0 /\ ui.authAttempts = 0
  /\ store.biometricLockout = None /\ store.failedBiometricAttempts = None
  /\ now >= LOCKOUT_DURATION

\* a biometric authentication opens Home: the success path of the Biometric
\* screen or the biometric sign-in of the Login screen
BiometricOpensHome ==
  \/ handleBiometricLogin
  \/ \E c \in calls : AuthSuccessNavigate(c) /\ Live(c.inst)

\* C36: while a persisted lockout with endTime > now exists, no biometric
\* authentication opens Home, the Login screen's biometric sign-in included.
C36_NoBiometricHomeDuringLockout ==
  [][LockoutRunning => ~BiometricOpensHome]_vars

\* TouchID rejects call c with an error handleFailedAttempt counts
CountedFailure(c) ==
  \E o \in Outcomes \ {"Success"} :
    /\ ~isCancel(o) /\ ~isSystemFailure(o)
    /\ AuthResult(c, o)

\* C37: when an attempt of the screen on display fails while no other handler
\* of the screen is mid-execution, the count handleFailedAttempt reads (the
\* authAttempts of its closure) equals the persisted failedBiometricAttempts,
\* absent counting as 0.
C37_FailureReadsPersistedCount ==
  [][\A c \in calls :
       (/\ CountedFailure(c) /\ Live(c.inst)
        /\ calls = {c} /\ queue = << >> /\ deferred = {}) =>
         c.env.authAttempts = PersistedCount]_vars

\* C38: at most one lockout timer is pending after every step, and a lockout
\* timer's callback never removes a persisted lockout record, nor resets a
\* locked-out screen, whose endTime is still ahead.
C38_OneLockoutTimerNoEarlyClear ==
  [][/\ Cardinality(Pending({"lockout"})') <= 1
     /\ \A t \in timers :
          LockoutTimeout(t) =>
            /\ ~LockoutRunning
            /\ (Live(t.inst) /\ ui.isLockedOut) => ui.lockoutEndTime <= now]_vars

\* the app has been sent to the background or made inactive and is still so
\* after the step
StaysInBackground ==
  /\ lifeCount >= 1 /\ appState # "active"
  /\ appState' = appState

\* C39: while the app stays in the background, a lastBiometricAuth that is
\* absent stays absent and no authenticate call of the Biometric screen, all
\* of them issued before a return to the foreground, navigates to Home.
C39_BackgroundInvalidationDurable ==
  [][StaysInBackground =>
       /\ store.lastBiometricAuth = None => store'.lastBiometricAuth = None
       /\ ~\E c \in calls : AuthSuccessNavigate(c) /\ Live(c.inst)]_vars

=============================================================================
